---- MODULE Spec2Model ----
(***************************************************************************)
(* Model of the Parkinson speech classifier: load_data / AudioDataset /    *)
(* DataLoader / train_and_evaluate_model / predict_audio                   *)
(* (AudioClassifier2.py) and the predict2.py script.                       *)
(*                                                                         *)
(* Numeric library calls (MFCC extraction, the LSTM forward pass, the      *)
(* cross-entropy, Adam) are kept as uninterpreted integer functions of     *)
(* their arguments; floats that the claims speak about are kept as exact   *)
(* fractions <<numerator, denominator>>.                                   *)
(***************************************************************************)
EXTENDS Integers, Sequences, FiniteSets, TLC

\* ---------------------------------------------------------------- bounds
MaxPerCategory == 11   \* largest number of .wav files in one category of one split
MaxSeed == 1           \* RNG seeds tried for a process: 0..MaxSeed
RngMod == 16           \* period of the modelled pseudo random generator
MaxFiles == 3          \* largest number of .wav files in the predicted directory
MaxFeature == 1        \* features of the predicted files are 0..MaxFeature

\* ------------------------------------------------------ program constants
batch_size == 32
n == 35
train_and_evaluate_model_params == 0
train_and_evaluate_model_args == 1

NoFile == [init |-> -1, steps |-> -1]      \* no such file / no parameters
None == -1                                 \* Python's None for a number
NoModel == [params |-> NoFile, training |-> FALSE]
SavePath == "audio_classifier2.pth"
LoadPath == "models/audio_classifier2.pth"
Paths == {SavePath, LoadPath}

categories == <<"elderlyHealthyControl", "peopleWithParkinson", "youngHealthyControl">>
sets == <<"train", "test", "validation">>
label_map == [l \in {"parkinson", "notParkinson"} |-> IF l = "parkinson" THEN 0 ELSE 1]

VARIABLES
    pc,             \* position of the running program
    fs,             \* checkpoint files: path -> parameters or NoFile
    train,          \* predict2.py's train flag
    rng,            \* state of the process's random generator
    data,           \* set name -> [X, y] arrays returned by load_data
    model,          \* train_and_evaluate_model's model: [params, training]
    grad,           \* batches whose gradients are accumulated in .grad
    epoch, loss, val_loss, train_losses, val_losses,
    order, bi,      \* the running DataLoader iterator: index order, next batch
    correct, total, accuracy,
    pmodel,         \* predict2.py's model: [params, training]
    audio_files, fi, parkinsonCounter, notParkinsonCounter, parkinsonPercentage,
    printed,        \* the percentage predict2 printed, in hundredths, or None
    \* history variables
    saves,          \* number of torch.save calls
    lastTrainLoss,  \* loss of the last training batch of the running epoch
    valBatchLosses, \* per-batch validation losses of the running epoch
    yielded,        \* batches yielded by the running iterator
    firstTrainPass, \* batches the training loader yielded in the first epoch
    lastStep,       \* gradient the last optimizer step applied, and its batch
    steps,          \* number of optimizer steps taken
    classes,        \* arg-max classes of the files predict2 processed
    usedModels      \* models (parameters, mode) predict_audio was called with

trainVars == <<data, model, grad, epoch, loss, val_loss, train_losses, val_losses,
               order, bi, correct, total, accuracy, saves, lastTrainLoss,
               valBatchLosses, yielded, firstTrainPass, lastStep, steps>>
predVars == <<pmodel, audio_files, fi, parkinsonCounter, notParkinsonCounter,
              parkinsonPercentage, printed, classes, usedModels>>
vars == <<pc, fs, train, rng, trainVars, predVars>>

\* ---------------------------------------------------------------- helpers
Min(a, b) == IF a < b THEN a ELSE b

NextRng(r) == (5 * r + 3) % RngMod

\* AudioClassifier(): freshly (randomly) initialised parameters, in training mode
AudioClassifier(r) == [params |-> [init |-> r, steps |-> 0], training |-> TRUE]

OldCheckpoint == [init |-> RngMod, steps |-> 1]

\* librosa.load + mfcc + mean: the feature vector of the k-th file of a category
Mfcc(si, ci, k) == 1000 * si + 100 * ci + k

\* load_data labelling the wrong category directory as parkinson
LabelOfWrongCategory(category) ==
    IF category = "elderlyHealthyControl" THEN "parkinson" ELSE "notParkinson"

\* load_data: the label string of a category directory
LabelOf(category) ==
    IF category = "peopleWithParkinson" THEN "parkinson" ELSE "notParkinson"

\* load_data: walk sets x categories x files, append (features, label)
RECURSIVE CategoryRows(_, _, _, _)
CategoryRows(si, ci, k, count) ==
    IF k > count THEN <<>>
    ELSE <<[x |-> Mfcc(si, ci, k),
            label |-> LabelOf(categories[ci])]>>
         \o CategoryRows(si, ci, k + 1, count)

SetRows(disk, si) ==
    CategoryRows(si, 1, 1, disk[sets[si]][categories[1]])
    \o CategoryRows(si, 2, 1, disk[sets[si]][categories[2]])
    \o CategoryRows(si, 3, 1, disk[sets[si]][categories[3]])

load_data(disk) ==
    [s \in {"train", "test", "validation"} |->
        LET si == CHOOSE i \in 1..3 : sets[i] = s
            rows == SetRows(disk, si)
        IN [X |-> [i \in 1..Len(rows) |-> rows[i].x],
            y |-> [i \in 1..Len(rows) |-> rows[i].label]]]

\* AudioDataset.__len__ / __getitem__ (0-based idx)
DatasetLen(ds) == Len(ds.X)
GetItem(ds, idx) == <<ds.X[idx + 1], label_map[ds.y[idx + 1]]>>

\* DataLoader(batch_size=32, shuffle=...): index order of one pass, its batches
SequentialOrder(N) == [i \in 1..N |-> i - 1]
RandomOrder(N, r) ==
    [i \in 1..N |-> ((IF (r \div 2) % 2 = 1 THEN N - i ELSE i - 1) + r) % N]
\* len(DataLoader)
LoaderLen(N) == (N + batch_size - 1) \div batch_size
Batch(ord, b) == SubSeq(ord, b * batch_size + 1, Min((b + 1) * batch_size, Len(ord)))

\* AudioClassifier.forward followed by arg-max, for one sample
ParamHash(p) == p.init + 3 * p.steps
Forward(m, x, r) == (ParamHash(m.params) + x + (IF m.training THEN r ELSE 0)) % 2

\* criterion(outputs, labels) for one batch of dataset indices
Mismatches(m, ds, batch, r) ==
    Cardinality({j \in 1..Len(batch) :
        Forward(m, GetItem(ds, batch[j])[1], r) # GetItem(ds, batch[j])[2]})
criterion(m, ds, batch, r) == 1 + Mismatches(m, ds, batch, r)

\* torch.sum(predicted.eq(labels)).item()
Matches(m, ds, batch, r) ==
    Cardinality({j \in 1..Len(batch) :
        Forward(m, GetItem(ds, batch[j])[1], r) = GetItem(ds, batch[j])[2]})

\* a training loader built with shuffle=True
TrainOrderShuffled(N, r) == RandomOrder(N, r)

\* train_loader = DataLoader(train_data, batch_size=32, shuffle=False)
TrainOrder(N, r) == SequentialOrder(N)

\* labels.size(0)
BatchSize0(batch) == Len(batch)

\* a loop that stops as soon as the validation loss fails to improve
LoopContinuesEarlyStop(e) ==
    IF e < 2 \/ Len(val_losses) < e
    THEN e < n
    ELSE e < n /\ val_losses[e][1] < val_losses[e - 1][1]

\* the loop condition of `for epoch in range(n)`
LoopContinues(e) == e < n

\* a loop that never clears the accumulated gradients
ZeroGradMissing(g) == g

\* optimizer.zero_grad(); loss.backward(): what .grad holds afterwards
ZeroGrad(g) == {}
Backward(g, b) == g \cup {b}

\* optimizer.step()
OptimizerStep(p) == [p EXCEPT !.steps = @ + 1]

\* predict2.py:21: the file torch.load reads
CheckpointRead == LoadPath

\* predict2.py:39-42: 1 when the prediction counts for parkinsonCounter
ParkinsonIncrement(prediction) == IF prediction = "Parkinson's" THEN 1 ELSE 0

\* predict2.py:44
PercentageReported(p, q) == p + q > 0

\* predict_audio returning the strings the wrong way round
InterpretSwapped(class) == IF class = 0 THEN "Not Parkinson's" ELSE "Parkinson's"

\* predict_audio: the string returned for an arg-max class
Interpret(class) == IF class = 0 THEN "Parkinson's" ELSE "Not Parkinson's"

\* f"{x:.2f}" of (p / t) * 100, in hundredths, rounding half to even
Format2f(p, t) ==
    LET q == (10000 * p) \div t
        rem == (10000 * p) % t
    IN IF 2 * rem > t THEN q + 1
       ELSE IF 2 * rem = t THEN q + (q % 2)
       ELSE q

\* directory contents load_data may find: files per category, per set
Counts == {0, 1, MaxPerCategory}
DiskChoices ==
    {[s \in {"train", "test", "validation"} |->
        [c \in {"elderlyHealthyControl", "peopleWithParkinson", "youngHealthyControl"} |-> k[s]]] :
     k \in [{"train", "test", "validation"} -> Counts]}

\* directory contents glob may find for predict2: feature of each file
RECURSIVE SeqsUpTo(_, _)
SeqsUpTo(S, len) ==
    IF len = 0 THEN {<<>>}
    ELSE LET shorter == SeqsUpTo(S, len - 1)
         IN shorter \cup {Append(q, x) : q \in {t \in shorter : Len(t) = len - 1}, x \in S}
FileChoices == SeqsUpTo(0..MaxFeature, MaxFiles)

\* ------------------------------------------------------------------- Init
Init ==
    /\ pc = "start"
    /\ fs \in [Paths -> {NoFile, OldCheckpoint}]
    /\ fs[SavePath] = NoFile
    /\ train \in BOOLEAN
    /\ rng = 0
    /\ data = [s \in {"train", "test", "validation"} |-> [X |-> <<>>, y |-> <<>>]]
    /\ model = NoModel
    /\ grad = {}
    /\ epoch = 0
    /\ loss = None
    /\ val_loss = <<0, 1>>
    /\ train_losses = <<>>
    /\ val_losses = <<>>
    /\ order = <<>>
    /\ bi = 0
    /\ correct = 0
    /\ total = 0
    /\ accuracy = <<None, 1>>
    /\ pmodel = NoModel
    /\ audio_files = <<>>
    /\ fi = 0
    /\ parkinsonCounter = 0
    /\ notParkinsonCounter = 0
    /\ parkinsonPercentage = <<None, 1>>
    /\ printed = None
    /\ saves = 0
    /\ lastTrainLoss = None
    /\ valBatchLosses = <<>>
    /\ yielded = <<>>
    /\ firstTrainPass = <<>>
    /\ lastStep = [grad |-> {}, batch |-> <<None, None>>]
    /\ steps = 0
    /\ classes = <<>>
    /\ usedModels = {}

\* ------------------------------------------- train_and_evaluate_model()
\* lines 115-138: load the data, build loaders, model, optimizer; model.train()
CallTrain ==
    /\ pc = "start"
    /\ \E disk \in DiskChoices, seed \in 0..MaxSeed :
        /\ data' = load_data(disk)
        /\ model' = [AudioClassifier(seed) EXCEPT !.training = TRUE]
        /\ rng' = NextRng(seed)
    /\ grad' = {}
    /\ epoch' = 0
    /\ train_losses' = <<>>
    /\ val_losses' = <<>>
    /\ pc' = "epoch_loop"
    /\ UNCHANGED <<fs, train, loss, val_loss, order, bi, correct, total, accuracy,
                   saves, lastTrainLoss, valBatchLosses, yielded, firstTrainPass,
                   lastStep, steps, predVars>>

\* lines 141-143: next epoch; loss = None; iter(train_loader)
BeginEpoch ==
    /\ pc = "epoch_loop"
    /\ LoopContinues(epoch)
    /\ loss' = None
    /\ lastTrainLoss' = None
    /\ order' = TrainOrder(DatasetLen(data["train"]), rng)
    /\ bi' = 0
    /\ yielded' = <<>>
    /\ pc' = "train_pass"
    /\ UNCHANGED <<fs, train, rng, data, model, grad, epoch, val_loss, train_losses,
                   val_losses, correct, total, accuracy, saves, valBatchLosses,
                   firstTrainPass, lastStep, steps, predVars>>

\* lines 143-150: one training batch
TrainBatch ==
    /\ pc = "train_pass"
    /\ bi < LoaderLen(Len(order))
    /\ LET batch == Batch(order, bi)
           l == criterion(model, data["train"], batch, rng)
           g == Backward(ZeroGrad(grad), <<epoch, bi>>)
       IN /\ loss' = l
          /\ lastTrainLoss' = l
          /\ grad' = g
          /\ model' = [model EXCEPT !.params = OptimizerStep(@)]
          /\ lastStep' = [grad |-> g, batch |-> <<epoch, bi>>]
          /\ steps' = steps + 1
          /\ yielded' = Append(yielded, batch)
    /\ rng' = IF model.training THEN NextRng(rng) ELSE rng
    /\ bi' = bi + 1
    /\ UNCHANGED <<pc, fs, train, data, epoch, val_loss, train_losses, val_losses,
                   order, correct, total, accuracy, saves, valBatchLosses,
                   firstTrainPass, predVars>>

\* lines 153-156: val_loss = 0; model.eval(); iter(val_loader)
BeginValidation ==
    /\ pc = "train_pass"
    /\ bi = LoaderLen(Len(order))
    /\ val_loss' = <<0, 1>>
    /\ valBatchLosses' = <<>>
    /\ firstTrainPass' = IF epoch = 0 THEN yielded ELSE firstTrainPass
    /\ model' = [model EXCEPT !.training = FALSE]
    /\ order' = RandomOrder(DatasetLen(data["validation"]), rng)
    /\ rng' = NextRng(rng)
    /\ bi' = 0
    /\ yielded' = <<>>
    /\ pc' = "val_pass"
    /\ UNCHANGED <<fs, train, data, grad, epoch, loss, train_losses, val_losses,
                   correct, total, accuracy, saves, lastTrainLoss, lastStep, steps,
                   predVars>>

\* lines 156-160: one validation batch, under no_grad
ValBatch ==
    /\ pc = "val_pass"
    /\ bi < LoaderLen(Len(order))
    /\ LET batch == Batch(order, bi)
           l == criterion(model, data["validation"], batch, rng)
       IN /\ loss' = l
          /\ val_loss' = <<val_loss[1] + l, 1>>
          /\ valBatchLosses' = Append(valBatchLosses, l)
          /\ yielded' = Append(yielded, batch)
    /\ rng' = IF model.training THEN NextRng(rng) ELSE rng
    /\ bi' = bi + 1
    /\ UNCHANGED <<pc, fs, train, data, model, grad, epoch, train_losses, val_losses,
                   order, correct, total, accuracy, saves, lastTrainLoss,
                   firstTrainPass, lastStep, steps, predVars>>

\* lines 161-167: val_loss /= len(val_loader); append to the traces
EndEpoch ==
    /\ pc = "val_pass"
    /\ bi = LoaderLen(Len(order))
    /\ IF LoaderLen(Len(order)) = 0
       THEN /\ pc' = "ZeroDivisionError"
            /\ UNCHANGED <<val_loss, train_losses, val_losses, epoch>>
       ELSE /\ val_loss' = <<val_loss[1], LoaderLen(Len(order))>>
            /\ train_losses' = Append(train_losses, loss)
            /\ val_losses' = Append(val_losses, val_loss')
            /\ epoch' = epoch + 1
            /\ pc' = "epoch_loop"
    /\ UNCHANGED <<fs, train, rng, data, model, grad, loss, order, bi, correct,
                   total, accuracy, saves, lastTrainLoss, valBatchLosses, yielded,
                   firstTrainPass, lastStep, steps, predVars>>

\* lines 170-179: torch.save; model.eval(); correct = total = 0; iter(test_loader)
SaveModel ==
    /\ pc = "epoch_loop"
    /\ ~LoopContinues(epoch)
    /\ fs' = [fs EXCEPT ![SavePath] = model.params]
    /\ saves' = saves + 1
    /\ model' = [model EXCEPT !.training = FALSE]
    /\ correct' = 0
    /\ total' = 0
    /\ order' = RandomOrder(DatasetLen(data["test"]), rng)
    /\ rng' = NextRng(rng)
    /\ bi' = 0
    /\ yielded' = <<>>
    /\ pc' = "test_pass"
    /\ UNCHANGED <<train, data, grad, epoch, loss, val_loss, train_losses, val_losses,
                   accuracy, lastTrainLoss, valBatchLosses, firstTrainPass, lastStep,
                   steps, predVars>>

\* lines 179-183: one test batch, under no_grad
TestBatch ==
    /\ pc = "test_pass"
    /\ bi < LoaderLen(Len(order))
    /\ LET batch == Batch(order, bi)
       IN /\ total' = total + BatchSize0(batch)
          /\ correct' = correct + Matches(model, data["test"], batch, rng)
          /\ yielded' = Append(yielded, batch)
    /\ rng' = IF model.training THEN NextRng(rng) ELSE rng
    /\ bi' = bi + 1
    /\ UNCHANGED <<pc, fs, train, data, model, grad, epoch, loss, val_loss,
                   train_losses, val_losses, order, accuracy, saves, lastTrainLoss,
                   valBatchLosses, firstTrainPass, lastStep, steps, predVars>>

\* line 185: print(f'Accuracy: {100 * correct / total}%'), then the plot
Report ==
    /\ pc = "test_pass"
    /\ bi = LoaderLen(Len(order))
    /\ IF total = 0
       THEN pc' = "ZeroDivisionError" /\ UNCHANGED accuracy
       ELSE pc' = "returned" /\ accuracy' = <<100 * correct, total>>
    /\ UNCHANGED <<fs, train, rng, data, model, grad, epoch, loss, val_loss,
                   train_losses, val_losses, order, bi, correct, total, saves,
                   lastTrainLoss, valBatchLosses, yielded, firstTrainPass, lastStep,
                   steps, predVars>>

\* --------------------------------------------------------------- predict2.py
\* a fresh process may start once no other one is running
ProcessOver == pc \in {"start", "returned", "ZeroDivisionError"}

\* predict2.py:13-19: the checkpoint is missing or the train flag is set; the
\* call passes one argument to a function that takes none
Predict2Train ==
    /\ ProcessOver
    /\ fs[LoadPath] = NoFile \/ train
    /\ train_and_evaluate_model_args # train_and_evaluate_model_params
    /\ \E seed \in 0..MaxSeed :
        /\ pmodel' = AudioClassifier(seed)
        /\ rng' = NextRng(seed)
    /\ pc' = "TypeError"
    /\ UNCHANGED <<fs, train, trainVars, audio_files, fi, parkinsonCounter,
                   notParkinsonCounter, parkinsonPercentage, printed, classes,
                   usedModels>>

\* predict2.py:10-33: load the checkpoint, model.eval(), glob the directory
Predict2Load ==
    /\ ProcessOver
    /\ ~(fs[LoadPath] = NoFile)
    /\ ~train
    /\ \E seed \in 0..MaxSeed, files \in FileChoices :
        /\ pmodel' = [AudioClassifier(seed) EXCEPT !.params = fs[CheckpointRead],
                                                   !.training = FALSE]
        /\ rng' = NextRng(seed)
        /\ audio_files' = files
    /\ fi' = 0
    /\ parkinsonCounter' = 0
    /\ notParkinsonCounter' = 0
    /\ parkinsonPercentage' = <<None, 1>>
    /\ printed' = None
    /\ classes' = <<>>
    /\ usedModels' = {}
    /\ pc' = "predict_loop"
    /\ UNCHANGED <<fs, train, trainVars>>

\* predict2.py:35-42: predict one file and count it
PredictFile ==
    /\ pc = "predict_loop"
    /\ fi < Len(audio_files)
    /\ LET class == Forward(pmodel, audio_files[fi + 1], rng)
           prediction == Interpret(class)
       IN /\ parkinsonCounter' = parkinsonCounter + ParkinsonIncrement(prediction)
          /\ notParkinsonCounter' = notParkinsonCounter + 1 - ParkinsonIncrement(prediction)
          /\ classes' = Append(classes, class)
    /\ usedModels' = usedModels \cup {pmodel}
    /\ rng' = IF pmodel.training THEN NextRng(rng) ELSE rng
    /\ fi' = fi + 1
    /\ UNCHANGED <<pc, fs, train, trainVars, pmodel, audio_files, parkinsonPercentage,
                   printed>>

\* predict2.py:44-51: the percentage (when a file was counted) and the counts
Predict2Report ==
    /\ pc = "predict_loop"
    /\ fi = Len(audio_files)
    /\ IF PercentageReported(parkinsonCounter, notParkinsonCounter)
       THEN /\ parkinsonPercentage' =
                 <<parkinsonCounter * 100, parkinsonCounter + notParkinsonCounter>>
            /\ printed' =
                 Format2f(parkinsonCounter, parkinsonCounter + notParkinsonCounter)
       ELSE UNCHANGED <<parkinsonPercentage, printed>>
    /\ pc' = "done"
    /\ UNCHANGED <<fs, train, rng, trainVars, pmodel, audio_files, fi,
                   parkinsonCounter, notParkinsonCounter, classes, usedModels>>

\* ------------------------------------------------------------------- Next
TrainNext ==
    \/ BeginEpoch \/ TrainBatch \/ BeginValidation \/ ValBatch \/ EndEpoch
    \/ SaveModel \/ TestBatch \/ Report

Next ==
    \/ CallTrain
    \/ TrainNext
    \/ Predict2Train
    \/ Predict2Load
    \/ PredictFile
    \/ Predict2Report

Spec == Init /\ [][Next]_vars

\* the interpreter runs a started train_and_evaluate_model() to its end
FairSpec == Spec /\ WF_vars(TrainNext)

\* ================================================================ claims
NonEmpty(s) == DatasetLen(data[s]) > 0

RECURSIVE SumSeq(_)
SumSeq(q) == IF q = <<>> THEN 0 ELSE Head(q) + SumSeq(Tail(q))

RECURSIVE Flatten(_)
Flatten(q) == IF q = <<>> THEN <<>> ELSE Head(q) \o Flatten(Tail(q))

\* C1: at the start of (and during) the training pass of every epoch the
\* model is in training mode, because the mode is switched back after each
\* epoch's validation pass.
C1_TrainingModeInEveryEpoch ==
    pc = "train_pass" => model.training

\* C2: once an epoch is over, the entry it appended to the training loss
\* trace is the loss of that epoch's last training batch, and the entry it
\* appended to the validation loss trace is the sum of that epoch's
\* per-batch validation losses divided by the number of validation batches.
C2_TracesRecordEpochLosses ==
    (pc = "epoch_loop" /\ epoch > 0 /\ NonEmpty("train")) =>
        /\ train_losses[epoch] = lastTrainLoss
        /\ val_losses[epoch] = <<SumSeq(valBatchLosses), Len(valBatchLosses)>>

\* C3: with non-empty train and validation splits the loop runs exactly 35
\* epochs without early exit: the parameters are saved at most once, a save
\* happens only after the 35th epoch with both traces holding 35 entries,
\* no run ends or fails before the save, and a started run reaches the save.
C3_SavedOnlyAfter35 ==
    /\ saves <= 1
    /\ saves = 1 => /\ epoch = 35
                    /\ Len(train_losses) = 35
                    /\ Len(val_losses) = 35
                    /\ fs[SavePath] = model.params
    /\ (saves = 0 /\ NonEmpty("train") /\ NonEmpty("validation")) =>
            /\ pc \in {"epoch_loop", "train_pass", "val_pass"}
            /\ epoch <= 35
            /\ Len(train_losses) = epoch
            /\ Len(val_losses) = epoch
            /\ fs[SavePath] = NoFile

C3_FixedEpochCount ==
    /\ []C3_SavedOnlyAfter35
    /\ (pc = "epoch_loop" /\ NonEmpty("train") /\ NonEmpty("validation")) ~> (saves = 1)

C3_Witness ==
    /\ pc = "returned"
    /\ saves = 1
    /\ NonEmpty("train")
    /\ NonEmpty("validation")
    /\ Len(train_losses) = 35

\* C4: the parameters predict2 loads before an inference-only run are the
\* parameters train_and_evaluate_model persisted, so a trained model and the
\* model predict2 reloads give the same output on every input.
C4_CheckpointRoundTrip ==
    (saves = 1 /\ pc \in {"predict_loop", "done"}) =>
        /\ pmodel.params = fs[SavePath]
        /\ \A x \in 0..MaxFeature :
              Forward(pmodel, x, rng) = Forward([model EXCEPT !.training = FALSE], x, rng)

\* C5: after any prefix of the files, parkinsonCounter is the number of
\* processed files of class 0 and notParkinsonCounter the number of the
\* others, so they sum to the number of processed files; the percentage is
\* 100 * parkinsonCounter / (parkinsonCounter + notParkinsonCounter), it is
\* reported (to two decimals) exactly when a file was processed, and classes
\* [0,1,0] give 2, 1 and 66.67.
C5_TallyAndPercentage ==
    pc \in {"predict_loop", "done"} =>
        /\ Len(classes) = fi
        /\ parkinsonCounter = Cardinality({i \in 1..fi : classes[i] = 0})
        /\ notParkinsonCounter = Cardinality({i \in 1..fi : classes[i] # 0})
        /\ parkinsonCounter + notParkinsonCounter = fi
        /\ pc = "predict_loop" => printed = None
        /\ pc = "done" =>
            /\ fi = Len(audio_files)
            /\ (printed # None) <=> (fi > 0)
            /\ fi > 0 =>
                /\ parkinsonPercentage = <<100 * parkinsonCounter, fi>>
                /\ 2 * (printed * fi - 10000 * parkinsonCounter) <= fi
                /\ 2 * (10000 * parkinsonCounter - printed * fi) <= fi
            /\ classes = <<0, 1, 0>> =>
                /\ parkinsonCounter = 2
                /\ notParkinsonCounter = 1
                /\ printed = 6667

C5_Witness ==
    /\ pc = "done"
    /\ classes = <<0, 1, 0>>
    /\ printed = 6667

\* C6: once the evaluator is through the test split it has visited every
\* test sample exactly once and has produced an accuracy between 0 and 100,
\* equal to 100 * matches / samples, for every test split, an empty one too.
C6_AccuracyForEverySplit ==
    (saves = 1 /\ pc \in {"returned", "ZeroDivisionError"}) =>
        /\ total = DatasetLen(data["test"])
        /\ \A i \in 0..(DatasetLen(data["test"]) - 1) :
              Cardinality({j \in 1..Len(Flatten(yielded)) : Flatten(yielded)[j] = i}) = 1
        /\ accuracy[1] # None
        /\ accuracy[1] >= 0
        /\ accuracy[1] <= 100 * accuracy[2]
        /\ accuracy[1] * total = 100 * correct * accuracy[2]

\* C7: every dataset load_data and AudioDataset build has as many entries as
\* pairs were supplied, and lookup(i) for 0 <= i < count finds the label in
\* the label map and returns the i-th feature vector with label 0 exactly
\* when the file came from peopleWithParkinson, and label 1 otherwise.
CategoryOfFeature(x) == categories[(x % 1000) \div 100]

C7_LookupLabels ==
    \A s \in {"train", "test", "validation"} :
        /\ DatasetLen(data[s]) = Len(data[s].y)
        /\ \A i \in 0..(DatasetLen(data[s]) - 1) :
            /\ data[s].y[i + 1] \in DOMAIN label_map
            /\ GetItem(data[s], i)[1] = data[s].X[i + 1]
            /\ GetItem(data[s], i)[2] \in {0, 1}
            /\ GetItem(data[s], i)[2] = 0 <=>
                    CategoryOfFeature(data[s].X[i + 1]) = "peopleWithParkinson"

C7_Witness ==
    /\ pc = "test_pass"
    /\ DatasetLen(data["train"]) = 3 * MaxPerCategory
    /\ GetItem(data["train"], 0) = <<Mfcc(1, 1, 1), 1>>
    /\ GetItem(data["train"], MaxPerCategory) = <<Mfcc(1, 2, 1), 0>>
    /\ GetItem(data["train"], 2 * MaxPerCategory) = <<Mfcc(1, 3, 1), 1>>

\* C8: in one pass of a loader every entry of the split comes in exactly one
\* batch, every batch but possibly the last has 32 entries and the last has
\* 1 to 32, and the training loader yields the same batches in every epoch.
PassSplit ==
    IF pc = "train_pass" THEN "train"
    ELSE IF pc = "val_pass" THEN "validation" ELSE "test"

InPass == pc \in {"train_pass", "val_pass", "test_pass"}

C8_Batches ==
    InPass =>
        LET flat == Flatten(yielded)
        IN /\ \A b \in 1..Len(yielded) :
                /\ Len(yielded[b]) >= 1
                /\ Len(yielded[b]) <= 32
                /\ b < Len(yielded) => Len(yielded[b]) = 32
           /\ \A j \in 1..Len(flat) :
                /\ flat[j] \in 0..(DatasetLen(data[PassSplit]) - 1)
                /\ \A k \in 1..Len(flat) : flat[j] = flat[k] => j = k
           /\ (pc = "train_pass" /\ epoch > 0) =>
                yielded = SubSeq(firstTrainPass, 1, Len(yielded))

C8_PassComplete ==
    (InPass /\ pc' # pc) =>
        LET flat == Flatten(yielded)
        IN /\ Len(flat) = DatasetLen(data[PassSplit])
           /\ \A i \in 0..(DatasetLen(data[PassSplit]) - 1) :
                \E j \in 1..Len(flat) : flat[j] = i
           /\ (pc = "train_pass" /\ epoch > 0) => yielded = firstTrainPass

C8_BatchLoader == []C8_Batches /\ [][C8_PassComplete]_vars

C8_Witness ==
    /\ pc = "train_pass"
    /\ epoch > 0
    /\ Len(yielded) = 2
    /\ Len(yielded[1]) = 32
    /\ Len(yielded[2]) = 3 * MaxPerCategory - 32

\* C9: the parameters change only in the optimizer step of a training
\* batch; every training batch of every epoch takes exactly one step, whose
\* gradient is that batch's alone; validation and test passes change nothing.
TrainBatchesPerEpoch == (DatasetLen(data["train"]) + 31) \div 32

C9_OneStepPerBatch ==
    /\ model # NoModel => model.params.steps = steps
    /\ steps > 0 => lastStep.grad = {lastStep.batch}
    /\ grad \subseteq {lastStep.batch}
    /\ pc = "epoch_loop" => steps = epoch * TrainBatchesPerEpoch
    /\ pc = "train_pass" =>
            steps = epoch * TrainBatchesPerEpoch + bi /\ (bi > 0 => lastStep.batch = <<epoch, bi - 1>>)
    /\ pc = "val_pass" => steps = (epoch + 1) * TrainBatchesPerEpoch
    /\ pc \in {"test_pass", "returned"} => steps = 35 * TrainBatchesPerEpoch

C9_ParamsFrame ==
    model'.params # model.params =>
        \/ pc = "start"
        \/ /\ pc = "train_pass" /\ pc' = "train_pass"
           /\ bi' = bi + 1
           /\ steps' = steps + 1

C9_ParamsChangeOnlyInStep == []C9_OneStepPerBatch /\ [][C9_ParamsFrame]_vars

C9_Witness ==
    /\ pc = "returned"
    /\ steps = 70
    /\ total > 32

\* C10: on both branches of predict2's train-vs-load switch the run gets to
\* classify the files (it does not abort before), and every file is
\* classified in evaluation mode with loaded or just-trained parameters,
\* never freshly initialised ones.
C10_BothBranchesClassify ==
    /\ pc # "TypeError"
    /\ \A m \in usedModels :
        /\ ~m.training
        /\ m.params \in {fs[LoadPath], model.params}

====
